---- MODULE Spec2Model ----
(***************************************************************************)
(* Model of company_intelligence.py: the company-name normaliser, the      *)
(* first-occurrence deduplication built on it, and the run() pipeline      *)
(* (read CSV, normalise, dedupe, drop helper column, write CSV + xlsx).    *)
(*                                                                         *)
(* A Python str is a sequence of characters; a character is a one-letter   *)
(* TLA+ string, a non-ASCII character is named by its code point           *)
(* ("U+2019").  A missing cell (pandas NaN, a float) is the value NaN.     *)
(***************************************************************************)
EXTENDS Integers, Sequences, FiniteSets, TLC

\* ------------------------------------------------------------------ text

Lower26 == <<"a","b","c","d","e","f","g","h","i","j","k","l","m",
             "n","o","p","q","r","s","t","u","v","w","x","y","z">>
Upper26 == <<"A","B","C","D","E","F","G","H","I","J","K","L","M",
             "N","O","P","Q","R","S","T","U","V","W","X","Y","Z">>
Digits == {"0","1","2","3","4","5","6","7","8","9"}

\* pandas' missing value: a float, not a str
NaN == <<"float:nan">>

\* the characters \s matches and str.strip() trims
IsSpace(c) == c \in {" ", "\t", "\n", "\r"}

\* the characters \w matches; \b is a change of IsWordChar
IsWordChar(c) ==
    \/ \E i \in 1..26 : c = Lower26[i] \/ c = Upper26[i]
    \/ c \in Digits
    \/ c = "_"

UpperChar(c) == IF \E i \in 1..26 : c = Lower26[i]
                THEN Upper26[CHOOSE i \in 1..26 : c = Lower26[i]]
                ELSE c

\* str.upper()
upper(s) == [i \in 1..Len(s) |-> UpperChar(s[i])]

\* str.replace(old, new) for a single character old
replace_char(s, old, new) == [i \in 1..Len(s) |-> IF s[i] = old THEN new ELSE s[i]]

\* str.strip(chars): drop the leading and trailing characters that are in C
strip_chars(s, C) ==
    LET keep == {i \in 1..Len(s) : s[i] \notin C}
    IN  IF keep = {} THEN <<>>
        ELSE LET lo == CHOOSE i \in keep : \A j \in keep : i <= j
                 hi == CHOOSE i \in keep : \A j \in keep : i >= j
             IN  SubSeq(s, lo, hi)

\* str.strip(): the characters trimmed are the whitespace characters
strip(s) == strip_chars(s, {" ", "\t", "\n", "\r"})

\* the first index >= i of s whose character is not whitespace (Len(s)+1 if none)
RECURSIVE SkipSpace(_, _)
SkipSpace(s, i) == IF i <= Len(s) /\ IsSpace(s[i]) THEN SkipSpace(s, i + 1) ELSE i

\* re.sub(r"\s+", " ", s), scanning from index i
RECURSIVE sub_ws_from(_, _)
sub_ws_from(s, i) ==
    IF i > Len(s) THEN <<>>
    ELSE IF IsSpace(s[i]) THEN <<" ">> \o sub_ws_from(s, SkipSpace(s, i))
    ELSE <<s[i]>> \o sub_ws_from(s, i + 1)

sub_ws(s) == sub_ws_from(s, 1)

\* the first index >= i of s holding ")" (Len(s)+1 if none)
RECURSIVE FindClose(_, _)
FindClose(s, i) == IF i <= Len(s) /\ s[i] # ")" THEN FindClose(s, i + 1) ELSE i

\* r"\s*\(([^)]+)\)\s*" tried at index i: the index just past the match, 0 if
\* there is no match at i.  \s* takes the whitespace run, "(" must follow,
\* [^)]+ runs to the first ")" and must take at least one character.
paren_match_end(s, i) ==
    LET open  == SkipSpace(s, i)
        close == FindClose(s, open + 1)
    IN  IF open <= Len(s) /\ s[open] = "(" /\ close <= Len(s) /\ close > open + 1
        THEN SkipSpace(s, close + 1)
        ELSE 0

\* re.sub(r"\s*\(([^)]+)\)\s*", r" \1 ", s), scanning from index i
RECURSIVE sub_paren_from(_, _)
sub_paren_from(s, i) ==
    IF i > Len(s) THEN <<>>
    ELSE LET e == paren_match_end(s, i)
         IN  IF e > 0
             THEN LET open  == SkipSpace(s, i)
                      close == FindClose(s, open + 1)
                  IN  <<" ">> \o SubSeq(s, open + 1, close - 1) \o <<" ">>
                          \o sub_paren_from(s, e)
             ELSE <<s[i]>> \o sub_paren_from(s, i + 1)

sub_paren(s) == sub_paren_from(s, 1)

\* ------------------------------------------------------- suffix patterns

\* _SUFFIXES: word is the letters; dotted is FALSE for \bWORD\b and TRUE for
\* the form \bW\.?O\.?R\.?(?:\b|$)
_SUFFIXES == <<
    [word |-> <<"L","T","D">>,                 dotted |-> FALSE],
    [word |-> <<"L","I","M","I","T","E","D">>, dotted |-> FALSE],
    [word |-> <<"L","L","P">>,                 dotted |-> FALSE],
    [word |-> <<"P","L","C">>,                 dotted |-> FALSE],
    [word |-> <<"I","N","C">>,                 dotted |-> FALSE],
    [word |-> <<"C","O","R","P">>,             dotted |-> FALSE],
    [word |-> <<"L","L","P">>,                 dotted |-> TRUE],
    [word |-> <<"L","T","D">>,                 dotted |-> TRUE],
    [word |-> <<"P","L","C">>,                 dotted |-> TRUE] >>

\* \b between s[q-1] and s[q] (outside the string counts as a non-word character)
WordAt(s, q) == q >= 1 /\ q <= Len(s) /\ IsWordChar(s[q])
Boundary(s, q) == WordAt(s, q - 1) # WordAt(s, q)

\* \bWORD without the closing \b: the word also matches as a prefix
plain_match_end_open(s, i, w) ==
    LET e == i + Len(w)
    IN  IF /\ e - 1 <= Len(s)
           /\ SubSeq(s, i, e - 1) = w
           /\ Boundary(s, i)
        THEN e ELSE 0

\* \bWORD\b tried at index i: the index just past the match, 0 if none
plain_match_end(s, i, w) ==
    LET e == i + Len(w)
    IN  IF /\ e - 1 <= Len(s)
           /\ SubSeq(s, i, e - 1) = w
           /\ Boundary(s, i)
           /\ Boundary(s, e)
        THEN e ELSE 0

\* the letters w[k..] of a dotted pattern matched from index i, each but the
\* last followed by \.? (greedy; skipping a period that is there cannot match,
\* the next pattern character being a letter): the index just past the last
\* letter, 0 if the letters do not match
RECURSIVE dotted_letters_end(_, _, _, _)
dotted_letters_end(s, i, w, k) ==
    IF i > Len(s) \/ s[i] # w[k] THEN 0
    ELSE IF k = Len(w) THEN i + 1
    ELSE dotted_letters_end(s, IF i + 1 <= Len(s) /\ s[i + 1] = "." THEN i + 2 ELSE i + 1,
                            w, k + 1)

\* (?:\b|$) at index q
BoundaryOrEnd(s, q) == Boundary(s, q) \/ q = Len(s) + 1

\* \bW\.?O\.?R\.?(?:\b|$) tried at index i: the final \.? is greedy and is
\* given back when (?:\b|$) fails after it
dotted_match_end(s, i, w) ==
    LET p == dotted_letters_end(s, i, w, 1)
    IN  IF ~Boundary(s, i) \/ p = 0 THEN 0
        ELSE IF p <= Len(s) /\ s[p] = "." /\ BoundaryOrEnd(s, p + 1) THEN p + 1
        ELSE IF BoundaryOrEnd(s, p) THEN p
        ELSE 0

suffix_match_end(s, i, pat) ==
    IF pat.dotted THEN dotted_match_end(s, i, pat.word)
    ELSE plain_match_end(s, i, pat.word)

\* pat.sub(" ", s), scanning from index i
RECURSIVE sub_suffix_from(_, _, _)
sub_suffix_from(s, i, pat) ==
    IF i > Len(s) THEN <<>>
    ELSE LET e == suffix_match_end(s, i, pat)
         IN  IF e > 0 THEN <<" ">> \o sub_suffix_from(s, e, pat)
             ELSE <<s[i]>> \o sub_suffix_from(s, i + 1, pat)

sub_suffix(s, pat) == sub_suffix_from(s, 1, pat)

\* for pat in _SUFFIX_PATTERNS: pad = pat.sub(" ", pad), from pattern k on
RECURSIVE strip_suffix_loop(_, _)
strip_suffix_loop(pad, k) ==
    IF k > Len(_SUFFIXES) THEN pad
    ELSE strip_suffix_loop(sub_suffix(pad, _SUFFIXES[k]), k + 1)

\* the characters of s.strip(" .,-_[]{}")
TrimSet == {" ", ".", ",", "-", "_", "[", "]", "{", "}"}

\* name.strip().replace(...).replace(...).replace(...), \s+ collapsed, upper-cased
clean_text(name) ==
    upper(sub_ws(replace_char(replace_char(replace_char(strip(name),
        "U+2019", "'"), "U+2013", "-"), "U+2014", "-")))

\* the suffix block: pad, apply every pattern in list order, strip
strip_suffixes_block(s) == strip(strip_suffix_loop(<<" ">> \o s \o <<" ">>, 1))

\* the tail without the punctuation trim
trim_tail_no_strip(s) == sub_ws(s)

\* the tail of the function: trim punctuation, collapse whitespace
trim_tail(s) == sub_ws(strip_chars(s, TrimSet))

normalise_company_name(name, strip_suffixes) ==
    IF name = NaN THEN <<>>
    ELSE LET s1 == sub_paren(clean_text(name))
             s2 == IF strip_suffixes THEN strip_suffixes_block(s1) ELSE s1
         IN  trim_tail(s2)

\* ------------------------------------------------------------ DataFrame

\* A DataFrame: its column labels in order, its index labels, its rows (each a
\* function from column label to cell; a cell is a str or NaN).
DataFrame(columns, index, rows) == [columns |-> columns, index |-> index, rows |-> rows]

len(df) == Len(df.rows)

Range(f) == {f[i] : i \in DOMAIN f}

\* Series.astype(str) on the object column read_csv(dtype=str) returns: str(x) of
\* every cell, so the float NaN becomes the text "nan" before the normaliser
\* sees it
astype_str(cell) == IF cell = NaN THEN <<"n","a","n">> ELSE cell

\* out[c] = values: an existing column is overwritten in place, a new one is
\* appended after the others
set_column(df, c, values) ==
    DataFrame(IF c \in Range(df.columns) THEN df.columns ELSE Append(df.columns, c),
              df.index,
              [i \in 1..Len(df.rows) |->
                  [k \in Range(df.columns) \cup {c} |->
                      IF k = c THEN values[i] ELSE df.rows[i][k]]])

\* a column check that also rejects a frame for a missing cell in the column
missing_column_or_cell(df, col) ==
    IF col \notin Range(df.columns) THEN TRUE
    ELSE \E i \in 1..Len(df.rows) : df.rows[i][col] = NaN

\* the condition of the ValueError of add_normalised_column
missing_column(df, col) == col \notin Range(df.columns)

\* add_normalised_column past its check: the copy with _norm_name set
add_normalised_column(df, col, strip_suffixes) ==
    set_column(df, "_norm_name",
               [i \in 1..Len(df.rows) |->
                   normalise_company_name(astype_str(df.rows[i][col]), strip_suffixes)])

\* keep="last" in place of keep="first": the last row of every key
RECURSIVE last_positions(_, _, _)
last_positions(keys, i, seen) ==
    IF i > Len(keys) THEN <<>>
    ELSE IF \E j \in (i + 1)..Len(keys) : keys[j] = keys[i]
    THEN last_positions(keys, i + 1, seen)
    ELSE <<i>> \o last_positions(keys, i + 1, seen)

\* the positions DataFrame.duplicated(keep="first") leaves unmarked: a single
\* pass over the keys with the set of keys seen so far
RECURSIVE first_positions(_, _, _)
first_positions(keys, i, seen) ==
    IF i > Len(keys) THEN <<>>
    ELSE IF keys[i] \in seen THEN first_positions(keys, i + 1, seen)
    ELSE <<i>> \o first_positions(keys, i + 1, seen \cup {keys[i]})

\* a drop_duplicates whose result is thrown away: every row stays
drop_duplicates_noop(df, c) == df

\* df.drop_duplicates(subset=[c]): the first row of every key, labels kept
drop_duplicates(df, c) ==
    LET kept == first_positions([i \in 1..Len(df.rows) |-> df.rows[i][c]], 1, {})
    IN  DataFrame(df.columns,
                  [j \in 1..Len(kept) |-> df.index[kept[j]]],
                  [j \in 1..Len(kept) |-> df.rows[kept[j]]])

\* df.reset_index(drop=True)
reset_index(df) == DataFrame(df.columns, [j \in 1..Len(df.rows) |-> j - 1], df.rows)

\* dedupe_by_normalised_name raises when it has to add the column and cannot
dedupe_raises(df) ==
    "_norm_name" \notin Range(df.columns) /\ missing_column(df, "company_name")

dedupe_by_normalised_name(df) ==
    LET d == IF "_norm_name" \notin Range(df.columns)
             THEN add_normalised_column(df, "company_name", TRUE)
             ELSE df
    IN  reset_index(drop_duplicates(d, "_norm_name"))

\* df.drop(columns=[c])
drop_column(df, c) ==
    DataFrame(SelectSeq(df.columns, LAMBDA k : k # c),
              df.index,
              [i \in 1..Len(df.rows) |->
                  [k \in Range(df.columns) \ {c} |-> df.rows[i][k]]])

\* ------------------------------------------------------------------ files

\* the cell texts pandas.read_csv reads as missing (its default na_values)
NaStrings == {
    <<>>,
    <<"#","N","/","A">>, <<"#","N","/","A"," ","N","/","A">>, <<"#","N","A">>,
    <<"-","1",".","#","I","N","D">>, <<"-","1",".","#","Q","N","A","N">>,
    <<"-","N","a","N">>, <<"-","n","a","n">>,
    <<"1",".","#","I","N","D">>, <<"1",".","#","Q","N","A","N">>,
    <<"<","N","A",">">>, <<"N","/","A">>, <<"N","A">>, <<"N","U","L","L">>,
    <<"N","a","N">>, <<"N","o","n","e">>, <<"n","/","a">>, <<"n","a","n">>,
    <<"n","u","l","l">> }

\* A file: kind "none" (no such file), "csv" or "xlsx"; header is the column row,
\* lines the cell texts of every data row.
NoFile == [kind |-> "none", header |-> <<>>, lines |-> <<>>]

\* read_csv: pd.read_csv(path, dtype=str): every cell a str, a missing one NaN
read_csv(file) ==
    DataFrame(file.header,
              [i \in 1..Len(file.lines) |-> i - 1],
              [i \in 1..Len(file.lines) |->
                  [k \in Range(file.header) |->
                      LET j == CHOOSE j \in 1..Len(file.header) : file.header[j] = k
                          text == file.lines[i][j]
                      IN  IF text \in NaStrings THEN NaN ELSE text]])

\* the rendering of a frame by to_csv / to_excel with index=False: the header
\* and every row's cells in column order, NaN as the empty cell
render(df, kind) ==
    [kind   |-> kind,
     header |-> df.columns,
     lines  |-> [i \in 1..Len(df.rows) |->
                    [j \in 1..Len(df.columns) |->
                        LET cell == df.rows[i][df.columns[j]]
                        IN  IF cell = NaN THEN <<>> ELSE cell]]]

\* whether old occurs in s at index i
occurs_at(s, i, old) == i + Len(old) - 1 <= Len(s) /\ SubSeq(s, i, i + Len(old) - 1) = old

\* str.replace(old, new): every non-overlapping occurrence, left to right
RECURSIVE replace_from(_, _, _, _)
replace_from(s, i, old, new) ==
    IF i > Len(s) THEN <<>>
    ELSE IF occurs_at(s, i, old) THEN new \o replace_from(s, i + Len(old), old, new)
    ELSE <<s[i]>> \o replace_from(s, i + 1, old, new)

\* out_csv.replace(".csv", ".xlsx")
xlsx_path(out_csv) == replace_from(out_csv, 1, <<".","c","s","v">>, <<".","x","l","s","x">>)

\* os.path.dirname: the text before the last "/", trailing slashes dropped
dirname(path) ==
    LET slashes == {i \in 1..Len(path) : path[i] = "/"}
    IN  IF slashes = {} THEN <<>>
        ELSE LET last == CHOOSE i \in slashes : \A j \in slashes : i >= j
                 head == SubSeq(path, 1, last)
             IN  IF \A i \in 1..Len(head) : head[i] = "/" THEN head
                 ELSE LET keep == {i \in 1..Len(head) : head[i] # "/"}
                          hi == CHOOSE i \in keep : \A j \in keep : i >= j
                      IN  SubSeq(head, 1, hi)

\* _ensure_parent(path) on the set of existing directories
_ensure_parent(existing, path) ==
    LET parent == dirname(path)
    IN  IF parent # <<>> /\ parent \notin existing
        THEN existing \cup {parent}
        ELSE existing

\* the extension to_excel picks its writer by; only a spreadsheet extension has one
has_excel_writer(path) ==
    Len(path) >= 5 /\ SubSeq(path, Len(path) - 4, Len(path)) = <<".","x","l","s","x">>

\* ------------------------------------------------------------------ state

VARIABLES
    pc,             \* the position of the running call
    in_file,        \* the file at in_path (NoFile: no such file)
    out_path,       \* run's out_path
    keep_suffixes,  \* run's keep_suffixes
    keep_norm_col,  \* run's keep_norm_col
    verbose,        \* run's verbose
    df,             \* the local df of run / of the library call
    n_in,           \* run's n_in
    n_out,          \* run's n_out
    files,          \* the files under the output paths
    dirs,           \* the directories that exist
    raised,         \* the exception that ended the call ("" if none)
    stdout,         \* what run printed
    arg,            \* the frame a caller passed to the library functions
    col,            \* add_normalised_column's col
    name,           \* normalise_company_name's name
    strip_sfx,      \* the strip_suffixes argument
    s,              \* normalise_company_name's local s (pad inside the suffix block)
    pass,           \* 1: name is the caller's text, 2: name is the first result
    first,          \* the result of pass 1
    applied         \* the suffix patterns already applied to pad

vars == <<pc, in_file, out_path, keep_suffixes, keep_norm_col, verbose, df, n_in,
          n_out, files, dirs, raised, stdout, arg, col, name, strip_sfx, s, pass,
          first, applied>>

lib_vars == <<arg, col>>
norm_vars == <<name, strip_sfx, s, pass, first, applied>>

\* ----------------------------------------------------------------- bounds

\* the most data rows of an input table
MaxRows == 2

EmptyFrame == DataFrame(<<>>, <<>>, <<>>)

\* the texts of the company_name cells of the input CSV
PipeNames == {
    <<"A","c","m","e"," ","L","t","d">>,
    <<"A","C","M","E"," ","L","I","M","I","T","E","D">>,
    <<"B","e","t","a"," ","I","n","c">>,
    <<>>,
    <<" "," ">>,
    <<"L","T","D">>,
    <<"N","a","n">> }

\* the header rows of the input CSV: the usual one, one without the name column,
\* one that already has a _norm_name column
Layouts == { <<"company_name", "ref">>,
             <<"ref">>,
             <<"_norm_name", "company_name", "ref">> }

RowDigit == <<"1","2","3","4","5","6","7","8","9">>

\* the text of row i's cell under column k when its name cell is nm
CellFor(k, nm, i) ==
    IF k = "company_name" THEN nm
    ELSE IF k = "_norm_name" THEN <<"o","l","d">>
    ELSE <<"r", RowDigit[i]>>

CsvFile(header, names) ==
    [kind   |-> "csv",
     header |-> header,
     lines  |-> [i \in 1..Len(names) |->
                    [j \in 1..Len(header) |-> CellFor(header[j], names[i], i)]]]

NameLists == UNION {[1..n -> PipeNames] : n \in 0..MaxRows}

InputFiles == {CsvFile(h, nms) : h \in Layouts, nms \in NameLists}

\* the out_path arguments: o.csv, d/o.csv, o.xlsx, o.txt
OutPaths == { <<"o",".","c","s","v">>,
              <<"d","/","o",".","c","s","v">>,
              <<"o",".","x","l","s","x">>,
              <<"o",".","t","x","t">> }

FsPaths == OutPaths \cup {xlsx_path(p) : p \in OutPaths}

\* ---------------------------------------------------------------- run()

IdleLib == arg = EmptyFrame /\ col = ""
IdleNorm == /\ name = <<>> /\ strip_sfx = TRUE /\ s = <<>>
            /\ pass = 0 /\ first = <<>> /\ applied = {}
IdleRun == /\ in_file = NoFile /\ out_path = <<>> /\ keep_suffixes = FALSE
           /\ keep_norm_col = FALSE /\ verbose = FALSE /\ n_in = 0 /\ n_out = 0
           /\ files = <<>> /\ dirs = {} /\ stdout = <<>>

Init ==
    /\ pc = "start"
    /\ in_file \in InputFiles \cup {NoFile}
    /\ out_path \in OutPaths
    /\ keep_suffixes \in BOOLEAN
    /\ keep_norm_col \in BOOLEAN
    /\ verbose \in BOOLEAN
    /\ df = EmptyFrame
    /\ n_in = 0
    /\ n_out = 0
    /\ files = [p \in FsPaths |-> NoFile]
    /\ dirs = {<<>>}
    /\ raised = ""
    /\ stdout = <<>>
    /\ IdleLib
    /\ IdleNorm

\* if not os.path.exists(in_path): raise FileNotFoundError
RunInputMissing ==
    /\ pc = "start"
    /\ in_file.kind = "none"
    /\ pc' = "raised"
    /\ raised' = "FileNotFoundError"
    /\ UNCHANGED <<in_file, out_path, keep_suffixes, keep_norm_col, verbose, df, n_in,
                   n_out, files, dirs, stdout, lib_vars, norm_vars>>

\* df = read_csv(in_path); n_in = len(df)
RunRead ==
    /\ pc = "start"
    /\ in_file.kind # "none"
    /\ df' = read_csv(in_file)
    /\ n_in' = len(df')
    /\ pc' = "add"
    /\ UNCHANGED <<in_file, out_path, keep_suffixes, keep_norm_col, verbose,
                   n_out, files, dirs, raised, stdout, lib_vars, norm_vars>>

\* add_normalised_column(df, strip_suffixes=not keep_suffixes): the column check fails
RunAddRaises ==
    /\ pc = "add"
    /\ missing_column(df, "company_name")
    /\ pc' = "raised"
    /\ raised' = "ValueError"
    /\ UNCHANGED <<in_file, out_path, keep_suffixes, keep_norm_col, verbose, df, n_in,
                   n_out, files, dirs, stdout, lib_vars, norm_vars>>

\* df = add_normalised_column(df, strip_suffixes=not keep_suffixes)
RunAdd ==
    /\ pc = "add"
    /\ ~missing_column(df, "company_name")
    /\ df' = add_normalised_column(df, "company_name", ~keep_suffixes)
    /\ pc' = "dedupe"
    /\ UNCHANGED <<in_file, out_path, keep_suffixes, keep_norm_col, verbose, n_in,
                   n_out, files, dirs, raised, stdout, lib_vars, norm_vars>>

\* df = dedupe_by_normalised_name(df); n_out = len(df)
RunDedupe ==
    /\ pc = "dedupe"
    /\ ~dedupe_raises(df)
    /\ df' = dedupe_by_normalised_name(df)
    /\ n_out' = len(df')
    /\ pc' = "drop"
    /\ UNCHANGED <<in_file, out_path, keep_suffixes, keep_norm_col, verbose, n_in,
                   files, dirs, raised, stdout, lib_vars, norm_vars>>

\* if not keep_norm_col and "_norm_name" in df.columns: df = df.drop(columns=[...])
RunDropNormCol ==
    /\ pc = "drop"
    /\ df' = IF ~keep_norm_col /\ "_norm_name" \in Range(df.columns)
             THEN drop_column(df, "_norm_name")
             ELSE df
    /\ pc' = "to_csv"
    /\ UNCHANGED <<in_file, out_path, keep_suffixes, keep_norm_col, verbose, n_in,
                   n_out, files, dirs, raised, stdout, lib_vars, norm_vars>>

\* write_outputs: _ensure_parent(out_csv); df.to_csv(out_csv, index=False)
WriteCsv ==
    /\ pc = "to_csv"
    /\ dirs' = _ensure_parent(dirs, out_path)
    /\ files' = [files EXCEPT ![out_path] = render(df, "csv")]
    /\ pc' = "to_excel"
    /\ UNCHANGED <<in_file, out_path, keep_suffixes, keep_norm_col, verbose, df, n_in,
                   n_out, raised, stdout, lib_vars, norm_vars>>

\* write_outputs: df.to_excel(out_csv.replace(".csv", ".xlsx"), index=False) succeeds
WriteExcel ==
    /\ pc = "to_excel"
    /\ has_excel_writer(xlsx_path(out_path))
    /\ dirname(xlsx_path(out_path)) \in dirs
    /\ files' = [files EXCEPT ![xlsx_path(out_path)] = render(df, "xlsx")]
    /\ pc' = "summary"
    /\ UNCHANGED <<in_file, out_path, keep_suffixes, keep_norm_col, verbose, df, n_in,
                   n_out, dirs, raised, stdout, lib_vars, norm_vars>>

\* write_outputs: to_excel raises (no writer for the extension, no engine
\* installed, no such directory, ...) and except Exception: pass swallows it
WriteExcelFails ==
    /\ pc = "to_excel"
    /\ pc' = "summary"
    /\ UNCHANGED <<in_file, out_path, keep_suffixes, keep_norm_col, verbose, df, n_in,
                   n_out, files, dirs, raised, stdout, lib_vars, norm_vars>>

\* if verbose: print(f"Read {n_in} rows -> {n_out} unique (removed {n_in - n_out}).")
RunSummary ==
    /\ pc = "summary"
    /\ stdout' = IF verbose
                 THEN Append(stdout, [read |-> n_in, unique |-> n_out,
                                      removed |-> n_in - n_out])
                 ELSE stdout
    /\ pc' = "done"
    /\ UNCHANGED <<in_file, out_path, keep_suffixes, keep_norm_col, verbose, df, n_in,
                   n_out, files, dirs, raised, lib_vars, norm_vars>>

Next ==
    \/ RunInputMissing
    \/ RunRead
    \/ RunAddRaises
    \/ RunAdd
    \/ RunDedupe
    \/ RunDropNormCol
    \/ WriteCsv
    \/ WriteExcel
    \/ WriteExcelFails
    \/ RunSummary

Spec == Init /\ [][Next]_vars

\* ------------------------------------------------- properties of run()

\* the elements of a set of numbers in ascending order
RECURSIVE Ascending(_)
Ascending(S) ==
    IF S = {} THEN <<>>
    ELSE LET m == CHOOSE x \in S : \A y \in S : x <= y
         IN  <<m>> \o Ascending(S \ {m})

\* the table run read
InputFrame == read_csv(in_file)

\* the canonical names of the rows of frame: the normaliser on the text of each
\* name cell
KeysOf(frame) ==
    [i \in 1..Len(frame.rows) |->
        normalise_company_name(astype_str(frame.rows[i]["company_name"]), ~keep_suffixes)]

\* the positions that are the first to hold their key, in ascending order
FirstRows(keys) ==
    Ascending({i \in 1..Len(keys) : \A j \in 1..(i - 1) : keys[j] # keys[i]})

AfterDedupe == {"drop", "to_csv", "to_excel", "summary", "done"}

\* C1: deduplication returns exactly the input rows that are the first, in input
\* order, to produce their canonical name, in the input's relative order.
C1_FirstOccurrenceSubsequence ==
    pc = "drop" =>
        LET inp    == InputFrame
            keys   == KeysOf(inp)
            firsts == FirstRows([i \in 1..Len(keys) |-> keys[i]])
        IN  /\ Len(df.rows) = Len(firsts)
            /\ \A j \in 1..Len(df.rows) :
                  /\ df.rows[j]["_norm_name"] = keys[firsts[j]]
                  /\ \A k \in Range(inp.columns) \ {"_norm_name"} :
                        df.rows[j][k] = inp.rows[firsts[j]][k]

\* a duplicate was dropped, and its first occurrence was kept
C1_Witness ==
    /\ pc = "drop"
    /\ n_in = 2
    /\ Len(df.rows) = 1
    /\ df.rows[1]["ref"] = <<"r", "1">>

\* C2: the output has at most as many rows as the input, the canonical names of
\* the output rows are pairwise distinct, and the count run reports as removed
\* is n_in - n_out and never negative.
C2_Cardinality ==
    /\ pc = "drop" =>
          /\ len(df) <= n_in
          /\ n_out = len(df)
          /\ \A i, j \in 1..Len(df.rows) :
                i # j => df.rows[i]["_norm_name"] # df.rows[j]["_norm_name"]
    /\ \A i \in 1..Len(stdout) :
          /\ stdout[i].removed = stdout[i].read - stdout[i].unique
          /\ stdout[i].removed >= 0

\* run reported that it removed a row
C2_Witness ==
    /\ pc = "done"
    /\ Len(stdout) = 1
    /\ stdout[1].removed > 0

\* C4: a record whose name value is missing gets the empty string as its
\* canonical name.
C4_MissingNameIsEmptyKey ==
    pc = "dedupe" =>
        \A i \in 1..Len(df.rows) :
            InputFrame.rows[i]["company_name"] = NaN => df.rows[i]["_norm_name"] = <<>>

NoFilesWritten == \A p \in FsPaths : files[p] = NoFile

\* C5: without the name column the call fails with the missing-field error before
\* any row is normalised and before anything is written; with the column, the
\* error is never raised.
C5_MissingField ==
    /\ (pc \in {"dedupe"} \cup AfterDedupe) => "company_name" \in Range(in_file.header)
    /\ raised = "ValueError" =>
          /\ "company_name" \notin Range(in_file.header)
          /\ df = InputFrame
          /\ NoFilesWritten
          /\ pc = "raised"

\* the error was raised for a table that has rows
C5_Witness ==
    /\ raised = "ValueError"
    /\ n_in = 2

\* the columns the claim expects run to write
ExpectedColumns ==
    IF keep_norm_col /\ "_norm_name" \notin Range(InputFrame.columns)
    THEN Append(InputFrame.columns, "_norm_name")
    ELSE InputFrame.columns

\* C8: the rows run writes have exactly the input's columns in the input's order
\* (plus _norm_name when keep_norm_col), each retained row with its input values.
C8_OutputSchema ==
    pc = "to_csv" =>
        /\ df.columns = ExpectedColumns
        /\ \A j \in 1..Len(df.rows) :
              \E i \in 1..Len(InputFrame.rows) :
                  \A k \in Range(InputFrame.columns) \cap Range(df.columns) :
                      df.rows[j][k] = InputFrame.rows[i][k]

\* C9: the CSV is in place before the spreadsheet export is attempted, the export
\* never ends the run, and afterwards the file at out_path holds the CSV
\* rendering of the deduplicated rows.
C9_CsvSurvivesExport ==
    /\ pc \in {"to_excel", "summary", "done"} => files[out_path] = render(df, "csv")
    /\ pc \in {"to_excel", "summary", "done"} => raised = ""


\* ------------------------------------- the library functions called directly

\* the most rows of a frame passed to the library functions
MaxLibRows == 2

\* names that consist solely of a listed legal suffix
SuffixOnlyNames == {
    <<"L","T","D">>, <<"L","I","M","I","T","E","D">>, <<"L","L","P">>,
    <<"P","L","C">>, <<"I","N","C">>, <<"C","O","R","P">>,
    <<"L",".","L",".","P",".">>, <<"L",".","T",".","D",".">>,
    <<"P",".","L",".","C",".">>, <<"l","t","d">> }

\* the name cells of the frames: suffix-only names, empty and whitespace-only
\* names, ordinary names, a missing cell
LibNames == SuffixOnlyNames \cup {
    <<>>, <<" ">>, <<"\t"," ">>,
    <<"A","c","m","e"," ","L","t","d">>, <<"B","e","t","a">>, NaN }

LibFrame(namecol, cells) ==
    DataFrame(<<namecol, "ref">>,
              [i \in 1..Len(cells) |-> i - 1],
              [i \in 1..Len(cells) |->
                  [k \in {namecol, "ref"} |->
                      IF k = namecol THEN cells[i] ELSE <<"r", RowDigit[i]>>]])

LibFrames == {LibFrame(c, cells) :
                 c \in {"company_name", "name"},
                 cells \in UNION {[1..n -> LibNames] : n \in 0..MaxLibRows}}

InitLib ==
    /\ pc = "call"
    /\ arg \in LibFrames
    /\ col \in {"company_name", "name"}
    /\ strip_sfx \in BOOLEAN
    /\ df = arg
    /\ raised = ""
    /\ IdleRun
    /\ name = <<>> /\ s = <<>> /\ pass = 0 /\ first = <<>> /\ applied = {}

lib_frame == <<in_file, out_path, keep_suffixes, keep_norm_col, verbose, n_in, n_out,
               files, dirs, stdout, arg, name, s, pass, first, applied>>

\* add_normalised_column(df, col, strip_suffixes): col is not a column
LibAddRaises ==
    /\ pc = "call"
    /\ missing_column(df, col)
    /\ pc' = "raised"
    /\ raised' = "ValueError"
    /\ UNCHANGED <<df, col, strip_sfx, lib_frame>>

\* df = add_normalised_column(df, col, strip_suffixes)
LibAdd ==
    /\ pc = "call"
    /\ ~missing_column(df, col)
    /\ df' = add_normalised_column(df, col, strip_sfx)
    /\ pc' = "added"
    /\ UNCHANGED <<raised, col, strip_sfx, lib_frame>>

\* df = dedupe_by_normalised_name(df) on a frame that has the _norm_name column
LibDedupe ==
    /\ pc = "added"
    /\ df' = dedupe_by_normalised_name(df)
    /\ pc' = "deduped"
    /\ UNCHANGED <<raised, col, strip_sfx, lib_frame>>

\* dedupe_by_normalised_name(df) on a frame without _norm_name: it adds the
\* column itself, with the default col and strip_suffixes, and that call raises
LibDedupeDirectRaises ==
    /\ pc = "call"
    /\ dedupe_raises(df)
    /\ pc' = "raised"
    /\ raised' = "ValueError"
    /\ col' = "company_name"
    /\ strip_sfx' = TRUE
    /\ UNCHANGED <<df, lib_frame>>

\* dedupe_by_normalised_name(df) on a frame without _norm_name, col being there
LibDedupeDirect ==
    /\ pc = "call"
    /\ ~dedupe_raises(df)
    /\ df' = dedupe_by_normalised_name(df)
    /\ pc' = "deduped"
    /\ col' = "company_name"
    /\ strip_sfx' = TRUE
    /\ UNCHANGED <<raised, lib_frame>>

NextLib ==
    \/ LibAddRaises
    \/ LibAdd
    \/ LibDedupe
    \/ LibDedupeDirectRaises
    \/ LibDedupeDirect

SpecLib == InitLib /\ [][NextLib]_vars

\* a name that is empty or all whitespace
IsBlank(text) == text # NaN /\ \A i \in 1..Len(text) : IsSpace(text[i])

\* C6: with suffix stripping, a name that is solely a listed suffix, or empty or
\* whitespace-only, normalises to the empty string; and the empty string is an
\* ordinary key: of the rows whose canonical name is empty exactly one is
\* retained, the first in input order.
C6_EmptyKeyCollapses ==
    /\ (pc = "added" /\ strip_sfx) =>
          \A i \in 1..Len(arg.rows) :
              (arg.rows[i][col] \in SuffixOnlyNames \/ IsBlank(arg.rows[i][col]))
                  => df.rows[i]["_norm_name"] = <<>>
    /\ pc = "deduped" =>
          LET keys    == [i \in 1..Len(arg.rows) |->
                             normalise_company_name(astype_str(arg.rows[i][col]), strip_sfx)]
              empties == {i \in 1..Len(arg.rows) : keys[i] = <<>>}
              kept    == {j \in 1..Len(df.rows) : df.rows[j]["_norm_name"] = <<>>}
          IN  IF empties = {} THEN kept = {}
              ELSE /\ Cardinality(kept) = 1
                   /\ \A j \in kept :
                         df.rows[j]["ref"] =
                             arg.rows[CHOOSE i \in empties : \A k \in empties : i <= k]["ref"]

\* the rows "LTD" and a whitespace-only name collapsed into the first
C6_Witness ==
    /\ pc = "deduped"
    /\ strip_sfx
    /\ Len(arg.rows) = 2
    /\ arg.rows[1][col] = <<"L","T","D">>
    /\ arg.rows[2][col] = <<"\t"," ">>
    /\ Len(df.rows) = 1
    /\ df.rows[1]["ref"] = <<"r","1">>
    /\ df.rows[1]["_norm_name"] = <<>>


\* ---------------------------------- normalise_company_name, step by step

\* the most fragments of a generated name
MaxParts == 3

\* the pieces names are put together from
Fragments == { <<"L","T","D">>, <<"A">>, <<" ">>, <<"_">>, <<".">>, <<"(">>, <<")">> }

\* the concatenations of at most n fragments of F
RECURSIVE Concats(_, _)
Concats(F, n) ==
    IF n = 0 THEN {<<>>}
    ELSE LET shorter == Concats(F, n - 1)
         IN  shorter \cup {x \o f : x \in shorter, f \in F}

\* whole names, from the documentation and the suffix list
ListedNames == SuffixOnlyNames \cup {
    <<"A","c","m","e"," ","(","H","o","l","d","i","n","g","s",")"," ","P","L","C">>,
    <<"U","N","L","I","M","I","T","E","D">>,
    <<"O","U+2019","B","r","i","e","n"," ","&"," ","C","o","."," ","L","t","d">>,
    <<"A","c","m","e"," "," "," ","L","t","d">>,
    <<"A","U+2013","B"," ","I","N","C","O","R","P","O","R","A","T","E","D">>,
    NaN }

NormNames == Concats(Fragments, MaxParts) \cup ListedNames

idle_in_norm == <<in_file, out_path, keep_suffixes, keep_norm_col, verbose, df, n_in,
                  n_out, files, dirs, raised, stdout, arg, col>>

IdleOutsideNorm == IdleRun /\ IdleLib /\ df = EmptyFrame /\ raised = ""

InitNorm ==
    /\ pc = "norm"
    /\ name \in NormNames
    /\ strip_sfx \in BOOLEAN
    /\ s = <<>>
    /\ pass = 1
    /\ first = <<>>
    /\ applied = {}
    /\ IdleOutsideNorm

\* the argument of the running call: the caller's text, then the first result
NormArg == IF pass = 1 THEN name ELSE first

\* if not isinstance(name, str): return ""
NormNotStr ==
    /\ pc = "norm"
    /\ NormArg = NaN
    /\ s' = <<>>
    /\ pc' = "returned"
    /\ UNCHANGED <<name, strip_sfx, pass, first, applied, idle_in_norm>>

\* s = name.strip().replace(...)...; s = re.sub(r"\s+", " ", s).upper()
NormClean ==
    /\ pc = "norm"
    /\ NormArg # NaN
    /\ s' = clean_text(NormArg)
    /\ pc' = "unwrap"
    /\ UNCHANGED <<name, strip_sfx, pass, first, applied, idle_in_norm>>

\* s = re.sub(r"\s*\(([^)]+)\)\s*", r" \1 ", s)
NormUnwrap ==
    /\ pc = "unwrap"
    /\ s' = sub_paren(s)
    /\ pc' = "suffixes"
    /\ UNCHANGED <<name, strip_sfx, pass, first, applied, idle_in_norm>>

\* if strip_suffixes: the whole block, the patterns in list order
NormStripSuffixes ==
    /\ pc = "suffixes"
    /\ strip_sfx
    /\ s' = strip_suffixes_block(s)
    /\ pc' = "trim"
    /\ UNCHANGED <<name, strip_sfx, pass, first, applied, idle_in_norm>>

\* strip_suffixes is false: the block is skipped
NormKeepSuffixes ==
    /\ pc = "suffixes"
    /\ ~strip_sfx
    /\ pc' = "trim"
    /\ UNCHANGED <<name, strip_sfx, s, pass, first, applied, idle_in_norm>>

\* s = s.strip(" .,-_[]{}"); s = re.sub(r"\s+", " ", s); return s
NormTrim ==
    /\ pc = "trim"
    /\ s' = trim_tail(s)
    /\ pc' = "returned"
    /\ UNCHANGED <<name, strip_sfx, pass, first, applied, idle_in_norm>>

\* the caller normalises the result again, with the same strip_suffixes
NormAgain ==
    /\ pc = "returned"
    /\ pass = 1
    /\ first' = s
    /\ pass' = 2
    /\ pc' = "norm"
    /\ UNCHANGED <<name, strip_sfx, s, applied, idle_in_norm>>

NextNorm ==
    \/ NormNotStr
    \/ NormClean
    \/ NormUnwrap
    \/ NormStripSuffixes
    \/ NormKeepSuffixes
    \/ NormTrim
    \/ NormAgain

SpecNorm == InitNorm /\ [][NextNorm]_vars

\* C3: normalising a normalised name again, with the same strip_suffixes, gives
\* the same name.
C3_Idempotent ==
    (pc = "returned" /\ pass = 2) => s = first

\* the words of _SUFFIXES
SuffixWords == {_SUFFIXES[i].word : i \in 1..Len(_SUFFIXES)}

\* the space-delimited tokens of a text
Tokens(text) ==
    {SubSeq(text, a, b) : <<a, b>> \in
        {<<a, b>> \in (1..Len(text)) \X (1..Len(text)) :
            /\ a <= b
            /\ \A i \in a..b : text[i] # " "
            /\ (a = 1 \/ text[a - 1] = " ")
            /\ (b = Len(text) \/ text[b + 1] = " ")}}

IsAlnum(c) == IsWordChar(c) /\ c # "_"

\* C10: with strip_suffixes, no token of the result is a listed suffix, and a
\* word of letters and digits that only contains a suffix stays a token.
C10_NoSuffixSurvives ==
    (pc = "returned" /\ pass = 1 /\ strip_sfx /\ name # NaN) =>
        /\ Tokens(s) \cap SuffixWords = {}
        /\ \A w \in Tokens(clean_text(name)) :
              ((\A i \in 1..Len(w) : IsAlnum(w[i])) /\ w \notin SuffixWords)
                  => w \in Tokens(s)


\* ------------------------- the suffix block with the patterns in any order

\* the most fragments of a name whose suffix patterns are permuted
MaxPermParts == 3

PermFragments == { <<"A"," ">>, <<"L","T","D">>, <<".","B">> }

InitPerm ==
    /\ pc = "norm"
    /\ name \in Concats(PermFragments, MaxPermParts)
    /\ strip_sfx = TRUE
    /\ s = <<>>
    /\ pass = 1
    /\ first = <<>>
    /\ applied = {}
    /\ IdleOutsideNorm

\* pad = f" {s} "
PermPad ==
    /\ pc = "suffixes"
    /\ s' = <<" ">> \o s \o <<" ">>
    /\ applied' = {}
    /\ pc' = "patterns"
    /\ UNCHANGED <<name, strip_sfx, pass, first, idle_in_norm>>

\* pad = pat.sub(" ", pad) for a pattern of the list not applied yet
PermApply(i) ==
    /\ pc = "patterns"
    /\ i \notin applied
    /\ s' = sub_suffix(s, _SUFFIXES[i])
    /\ applied' = applied \cup {i}
    /\ UNCHANGED <<pc, name, strip_sfx, pass, first, idle_in_norm>>

\* s = pad.strip(), every pattern applied
PermStrip ==
    /\ pc = "patterns"
    /\ applied = 1..Len(_SUFFIXES)
    /\ s' = strip(s)
    /\ pc' = "trim"
    /\ UNCHANGED <<name, strip_sfx, pass, first, applied, idle_in_norm>>

NextPerm ==
    \/ NormClean
    \/ NormUnwrap
    \/ PermPad
    \/ \E i \in 1..Len(_SUFFIXES) : PermApply(i)
    \/ PermStrip
    \/ NormTrim

SpecPerm == InitPerm /\ [][NextPerm]_vars

\* C7 as stated: whatever the order of the nine patterns, the canonical name is
\* the one the listed order gives.
C7_AnyOrderSameName ==
    pc = "returned" => s = normalise_company_name(name, TRUE)

HasPeriod(text) == \E i \in 1..Len(text) : text[i] = "."

\* C7 amended: for a name without a period, whatever the order of the nine
\* patterns, the canonical name is the one the listed order gives.
C7_AnyOrderSameNameNoPeriod ==
    (pc = "returned" /\ ~HasPeriod(name)) => s = normalise_company_name(name, TRUE)

\* a name without a period lost its suffix, every pattern having been applied
C7_Witness ==
    /\ pc = "returned"
    /\ name = <<"A"," ","L","T","D">>
    /\ s = <<"A">>
    /\ applied = 1..Len(_SUFFIXES)

====
